---- MODULE Spec2Model ----
(***************************************************************************)
(* The tool-augmented conversation orchestrator of MCP-TEST-PILOT:         *)
(*   mcp-client/mcp_client.py  MCPClient (process_query, call_llm,         *)
(*                             log_conversation, load_conversation)        *)
(*   mcp-client/main.py        the FastAPI handlers around the one shared  *)
(*                             MCPClient (lifespan, /query, the handlers   *)
(*                             of /conversations)                          *)
(*                                                                         *)
(* Python lists are objects: app.state.conversations[id] and               *)
(* client.messages hold REFERENCES to lists, so the model keeps a heap of  *)
(* list objects and stores addresses.  The asyncio event loop runs one     *)
(* handler at a time and switches only where a handler really suspends,    *)
(* which in process_query is `await self.session.call_tool(...)` alone     *)
(* (call_llm makes a blocking call, log_conversation has no await inside). *)
(* `running` is the handler that holds the event loop.                     *)
(***************************************************************************)
EXTENDS Integers, Sequences, FiniteSets, TLC

\* ------------------------------------------------------------------ bounds
\* One run appends at most MaxAppends messages, which bounds the number of
\* turns, the tool-calling rounds of a turn and the length of every list.
\* messages appended by the orchestrator in one run of the model
MaxAppends == 5
\* tool-call requests in one model response
MaxCalls == 2
\* process restarts
MaxRestarts == 1
\* conversation ids /query makes for requests that carry none
MaxMinted == 1
\* conversations read back by load_conversation
MaxLoads == 1
\* /file requests in one run of the model
MaxUploads == 1

\* conversation ids a caller of /query may send
ConvIds == {1, 2}
\* every turn appends its user message first, so no more turns than appends
Turns == 1..MaxAppends
\* the /file requests of a run
Uploads == 1..MaxUploads

\* ------------------------------------------------------------- data values
\* Python None and the empty list, as content values
None == "None"
EmptyList == "[]"
IsStr(c) == c \notin {None, EmptyList}

\* A message dict.  Absent keys are tool_call_id = 0 and tool_calls = <<>>.
\* `by` is a history annotation, not program data: the turn that appended it.
Msg(r, c, id, tc, t) ==
  [role |-> r, content |-> c, tool_call_id |-> id, tool_calls |-> tc, by |-> t]

SystemMessage == Msg("system", "system_prompt", 0, <<>>, 0)
UserMessage(t) == Msg("user", "query", 0, <<>>, t)

\* the id the model gives the k-th request of round r of turn t (ids are unique)
CallId(t, r, k) == t * 100 + r * 10 + k
\* the argument strings a request can carry: an empty object, an object, and
\* a string that is no JSON
ArgumentStrings == {"{}", "{\"path\": \"a\"}", "{\"path\":"}
ToolCalls(t, r, n, a) ==
  [k \in 1..n |-> [id |-> CallId(t, r, k), name |-> "tool", arguments |-> a]]

\* json.loads(a) raises json.JSONDecodeError
JSONDecodeError(a) == a \notin {"{}", "{\"path\": \"a\"}"}
\* json.loads(a)
JsonLoads(a) == IF a = "{}" THEN <<>> ELSE [path |-> "a"]
\* tool_args of the for loop: json.loads(arguments), {} when that raises
ToolArgs(a) == IF JSONDecodeError(a) THEN <<>> ELSE JsonLoads(a)

\* the two user messages /file makes of upload u: the note that names the
\* file, and a content list with the tool result in it (`by` is 0 - u)
UploadMessages(u) ==
  << Msg("user", "Uploaded file", 0, <<>>, 0 - u),
     Msg("user", "[tool_result]", 0, <<>>, 0 - u) >>

AssistantToolCallMessage(t, c, tc) == Msg("assistant", c, 0, tc, t)
\* "content": assistant_message.content or ""
AssistantTextMessage(t, c) == Msg("assistant", IF c = None THEN "" ELSE c, 0, <<>>, t)
ToolResultMessage(t, id) == Msg("tool", "result", id, <<>>, t)
ToolErrorMessage(t, id) == Msg("tool", "Tool execution failed", id, <<>>, t)

\* uuid4 of the MCPClient constructed at process start number e
Uuid(e) == 1000 + e

VARIABLES
  heap,           \* list objects: address -> sequence of messages
  conversations,  \* app.state.conversations: conversation id -> address
  client,         \* app.state.client: the one MCPClient
  disk,           \* conversations/<id>.json: file id -> record
  pc,             \* per turn: where its handler stands
  convo_id,       \* per turn: convo_id of the /query handler
  messages,       \* per turn: the local list `messages` of process_query
  tool_calls,     \* per turn: assistant_message.tool_calls of the current round
  idx,            \* per turn: position of the for loop over tool_calls
  rounds,         \* per turn: tool-calling responses so far
  running,        \* the handler holding the event loop, 0 when none
  started,        \* number of /query requests accepted so far
  epoch,          \* number of process restarts so far
  llm_request,    \* the last request the model endpoint received
  appended,       \* number of messages appended so far, for MaxAppends
  before,         \* per turn: the store and the list as the turn began (history)
  loads,          \* number of conversations load_conversation has read
  minted,         \* number of conversation ids /query made with uuid4
  reply,          \* what the request handled in the last step answered, if it
                  \* was a fetch, a delete or a load
  writing,        \* the save that has opened the file and not yet written it
  invoked,        \* per turn: the calls of session.call_tool so far (history)
  upload          \* per upload: where its /file handler stands and its convo_id

vars == <<heap, conversations, client, disk, pc, convo_id, messages, tool_calls,
          idx, rounds, running, started, epoch, llm_request, appended, before,
          minted, loads, reply, writing, invoked, upload>>

turnvars == <<convo_id, tool_calls, idx, rounds>>

\* ---------------------------------------------------------------- helpers
Last(s) == s[Len(s)]
IsPrefix(s, t) == Len(s) <= Len(t) /\ SubSeq(t, 1, Len(s)) = s

\* self.messages of the shared client, as a value
ClientMessages == heap[client.messages]

NoRequest == [messages |-> <<>>, tools |-> <<>>]
NoBefore == [disk |-> <<>>, transcript |-> <<>>]
NoReply == [op |-> "none"]
NotWriting == [by |-> 0]
NoUpload == [pc |-> "new", convo_id |-> 0, during |-> {}]

\* MCPClient.__init__ at process start number e; its messages = [] is list 1
NewClient(e) ==
  [messages |-> 1, conversation_id |-> Uuid(e), created_at |-> e, tools |-> <<"tool">>]

Init ==
  /\ heap = << <<>> >>
  /\ conversations = <<>>
  /\ client = NewClient(0)
  /\ disk = <<>>
  /\ pc = [t \in Turns |-> "new"]
  /\ convo_id = [t \in Turns |-> 0]
  /\ messages = [t \in Turns |-> <<>>]
  /\ tool_calls = [t \in Turns |-> <<>>]
  /\ idx = [t \in Turns |-> 0]
  /\ rounds = [t \in Turns |-> 0]
  /\ running = 0
  /\ started = 0
  /\ epoch = 0
  /\ llm_request = NoRequest
  /\ appended = 0
  /\ before = [t \in Turns |-> NoBefore]
  /\ minted = 0
  /\ loads = 0
  /\ reply = NoReply
  /\ writing = NotWriting
  /\ invoked = [t \in Turns |-> <<>>]
  /\ upload = [u \in Uploads |-> NoUpload]

\* self.messages.append(m); ...; messages.append(m)
AppendBoth(t, m) ==
  /\ appended' = appended + 1
  /\ heap' = [heap EXCEPT ![client.messages] = Append(@, m)]
  /\ messages' = [messages EXCEPT ![t] = Append(@, m)]


\* ------------------------------------------------- the conversation store
\* log_conversation, the loop over the messages: only role and content are
\* copied; a str content is kept, a list content is copied item by item,
\* anything else (None) leaves the initial [].
SerializableMessage(m) ==
  [role |-> m.role,
   content |-> IF IsStr(m.content) THEN m.content ELSE EmptyList,
   tool_call_id |-> 0, tool_calls |-> <<>>, by |-> m.by]

SerializableConversation(conversation) ==
  [i \in 1..Len(conversation) |-> SerializableMessage(conversation[i])]

DataToSave(conversation) ==
  [id |-> client.conversation_id, created_at |-> client.created_at,
   messages |-> SerializableConversation(conversation)]

\* get_conversation_path: the file is named after the CLIENT's conversation_id
ConversationPath == client.conversation_id

\* a file that open(path, "w") truncated and json.dump did not finish
TruncatedFile == [id |-> 0, created_at |-> 0, messages |-> <<>>]

FileNotFound == <<"FileNotFoundError">>
\* load_conversation(conversation_id): the messages it leaves in self.messages
LoadConversation(conversation_id) ==
  IF conversation_id \notin DOMAIN disk THEN FileNotFound
  ELSE disk[conversation_id].messages

\* ---------------------------------------------------------- POST /query
InFlight(t) == pc[t] \notin {"new", "done", "model_error", "store_error", "cancelled", "gone"}
Quiescent == \A t \in Turns : ~InFlight(t)

\* Conversation ids are opaque to the program, so callers take new ids in order.
IdUsed(cid) == \E t \in Turns : convo_id[t] = cid
NextIds == {cid \in ConvIds : cid = 1 \/ IdUsed(cid - 1)}

\* uuid4 that gives the ids callers make up themselves
Uuid4Reused(n) == n
\* the n-th id str(uuid.uuid4()) gives /query: new, and no id a caller made up
Uuid4(n) == 2000 + n
\* request.conversation_id left out or ""
EmptyId == 0
\* what a caller may send as conversation_id: a new id, an id sent before,
\* an id /query returned, or nothing
MintedIds == {Uuid4(n) : n \in 1..minted}
RequestIds == NextIds \cup {EmptyId} \cup MintedIds

\* Begin without the else branch: for an id that is not in the table the
\* client keeps the list it is bound to
BeginKeepsList(t, cid) ==
  /\ running = 0
  /\ cid \in RequestIds
  /\ cid = EmptyId => minted < MaxMinted
  /\ t = started + 1
  /\ pc[t] = "new"
  /\ appended < MaxAppends
  /\ started' = t
  /\ running' = t
  /\ minted' = IF cid = EmptyId THEN minted + 1 ELSE minted
  /\ LET id == IF cid = EmptyId THEN Uuid4(minted + 1) ELSE cid IN
       /\ convo_id' = [convo_id EXCEPT ![t] = id]
       /\ IF id \in DOMAIN conversations
            THEN /\ client' = [client EXCEPT !.messages = conversations[id]]
                 /\ heap' = heap
            ELSE /\ client' = client
                 /\ heap' = heap
       /\ before' = [before EXCEPT ![t] =
                       [disk |-> disk,
                        transcript |-> IF id \in DOMAIN conversations
                                         THEN heap[conversations[id]] ELSE <<>>]]
  /\ pc' = [pc EXCEPT ![t] = "query"]
  /\ UNCHANGED <<conversations, disk, messages, tool_calls, idx, rounds, epoch, llm_request,
                 appended>>
  /\ reply' = NoReply /\ UNCHANGED <<loads, writing, invoked, upload>>

\* main.py: convo_id = request.conversation_id or uuid; restore or start []
Begin(t, cid) ==
  /\ running = 0
  /\ cid \in RequestIds
  /\ cid = EmptyId => minted < MaxMinted
  /\ t = started + 1
  /\ pc[t] = "new"
  /\ appended < MaxAppends
  /\ started' = t
  /\ running' = t
  /\ minted' = IF cid = EmptyId THEN minted + 1 ELSE minted
  /\ LET id == IF cid = EmptyId THEN Uuid4(minted + 1) ELSE cid IN
       /\ convo_id' = [convo_id EXCEPT ![t] = id]
       /\ IF id \in DOMAIN conversations
            THEN /\ client' = [client EXCEPT !.messages = conversations[id]]
                 /\ heap' = heap
            ELSE /\ client' = [client EXCEPT !.messages = Len(heap) + 1]
                 /\ heap' = Append(heap, <<>>)
       /\ before' = [before EXCEPT ![t] =
                       [disk |-> disk,
                        transcript |-> IF id \in DOMAIN conversations
                                         THEN heap[conversations[id]] ELSE <<>>]]
  /\ pc' = [pc EXCEPT ![t] = "query"]
  /\ UNCHANGED <<conversations, disk, messages, tool_calls, idx, rounds, epoch, llm_request,
                 appended>>
  /\ reply' = NoReply /\ UNCHANGED <<loads, writing, invoked, upload>>

\* AppendUser with `messages = [system_message]`: the user message is left
\* out of the list the turn returns
AppendUserOmitted(t) ==
  /\ running = t
  /\ pc[t] = "query"
  /\ heap' = [heap EXCEPT ![client.messages] = Append(@, UserMessage(t))]
  /\ messages' = [messages EXCEPT ![t] = <<SystemMessage>>]
  /\ appended' = appended + 1
  /\ pc' = [pc EXCEPT ![t] = "log_user"]
  /\ UNCHANGED <<conversations, client, disk, turnvars, before, running, started, epoch, llm_request>>
  /\ reply' = NoReply /\ UNCHANGED <<minted, loads, writing, invoked, upload>>

\* AppendUser where the system message is put on self.messages too
AppendUserWithSystem(t) ==
  /\ running = t
  /\ pc[t] = "query"
  /\ heap' = [heap EXCEPT ![client.messages] = Append(Append(@, SystemMessage), UserMessage(t))]
  /\ messages' = [messages EXCEPT ![t] = <<SystemMessage, UserMessage(t)>>]
  /\ appended' = appended + 1
  /\ pc' = [pc EXCEPT ![t] = "log_user"]
  /\ UNCHANGED <<conversations, client, disk, turnvars, before, running, started, epoch, llm_request>>
  /\ reply' = NoReply /\ UNCHANGED <<minted, loads, writing, invoked, upload>>

\* process_query: the user message goes to self.messages; the local list
\* `messages` starts as [system_message, user_message]
AppendUser(t) ==
  /\ running = t
  /\ pc[t] = "query"
  /\ heap' = [heap EXCEPT ![client.messages] = Append(@, UserMessage(t))]
  /\ messages' = [messages EXCEPT ![t] = <<SystemMessage, UserMessage(t)>>]
  /\ appended' = appended + 1
  /\ pc' = [pc EXCEPT ![t] = "log_user"]
  /\ UNCHANGED <<conversations, client, disk, turnvars, before, running, started, epoch, llm_request>>
  /\ reply' = NoReply /\ UNCHANGED <<minted, loads, writing, invoked, upload>>

LogPcs == {"log_user", "log_assistant", "log_tool_result", "log_tool_error", "log_final"}

\* AfterLog that leaves the round after the save of the assistant message:
\* the requests are not executed
AfterLogSkipsTools(t) ==
  CASE pc[t] \in {"log_user", "log_assistant", "log_tool_result", "log_tool_error"} -> "call_llm"
    [] pc[t] = "log_final" -> "store"

\* where process_query goes on once `await self.log_conversation(...)` returned
AfterLog(t) ==
  CASE pc[t] = "log_user" -> "call_llm"
    [] pc[t] = "log_assistant" -> "tool"
    [] pc[t] \in {"log_tool_result", "log_tool_error"} ->
         IF idx[t] < Len(tool_calls[t]) THEN "tool" ELSE "call_llm"
    [] pc[t] = "log_final" -> "store"

\* log_conversation(self.messages) writes the whole list
LogSucceeds(t) ==
  /\ running = t
  /\ pc[t] \in LogPcs
  /\ disk' = (ConversationPath :> DataToSave(ClientMessages)) @@ disk
  /\ idx' = [idx EXCEPT ![t] =
               CASE pc[t] = "log_assistant" -> 1
                 [] pc[t] \in {"log_tool_result", "log_tool_error"}
                      /\ idx[t] < Len(tool_calls[t]) -> idx[t] + 1
                 [] OTHER -> idx[t]]
  /\ pc' = [pc EXCEPT ![t] = AfterLog(t)]
  /\ UNCHANGED <<heap, conversations, client, messages, convo_id, tool_calls, rounds,
                 before, running, started, epoch, llm_request, appended>>
  /\ reply' = NoReply /\ writing' = NotWriting /\ UNCHANGED <<minted, loads, invoked, upload>>

\* log_conversation raises: makedirs or open failed (file untouched), or the
\* write failed after open(path, "w") truncated the file.  The save of a tool
\* result stands inside `try: ... except Exception`, so there the failure is
\* taken for a tool failure and an error message is appended for the same
\* request; messages.append(tool_result_message) comes after the save and is
\* skipped, so the local list holds the error message in place of the result.
\* Everywhere else the failure leaves process_query and /query answers 500.
LogFails(t, truncated) ==
  /\ running = t
  /\ pc[t] \in LogPcs
  /\ disk' = IF truncated THEN (ConversationPath :> TruncatedFile) @@ disk ELSE disk
  /\ IF pc[t] = "log_tool_result"
       THEN /\ LET m == ToolErrorMessage(t, tool_calls[t][idx[t]].id) IN
                 /\ appended' = appended + 1
                 /\ heap' = [heap EXCEPT ![client.messages] = Append(@, m)]
                 /\ messages' = [messages EXCEPT ![t] =
                                   Append(SubSeq(@, 1, Len(@) - 1), m)]
            /\ pc' = [pc EXCEPT ![t] = "log_tool_error"]
            /\ running' = running
            /\ before' = before
       ELSE /\ pc' = [pc EXCEPT ![t] = "store_error"]
            /\ running' = 0
            /\ before' = [before EXCEPT ![t] = NoBefore]
            /\ UNCHANGED <<heap, messages, appended>>
  /\ UNCHANGED <<conversations, client, turnvars, started, epoch, llm_request>>
  /\ reply' = NoReply /\ writing' = NotWriting /\ UNCHANGED <<minted, loads, invoked, upload>>

\* call_llm: messages=self.messages, tools=self.tools
LLMRequest ==
  [messages |-> ClientMessages, tools |-> client.tools]

AssistantContents == {None, "text"}

\* LLMFails that leaves a partial assistant message behind before it raises
LLMFailsAppends(t) ==
  /\ running = t
  /\ pc[t] = "call_llm"
  /\ appended < MaxAppends
  /\ llm_request' = LLMRequest
  /\ AppendBoth(t, AssistantTextMessage(t, None))
  /\ pc' = [pc EXCEPT ![t] = "model_error"]
  /\ running' = 0
  /\ before' = [before EXCEPT ![t] = NoBefore]
  /\ UNCHANGED <<conversations, client, disk, turnvars, started, epoch>>
  /\ reply' = NoReply /\ UNCHANGED <<minted, loads, writing, invoked, upload>>

\* LLMFails with a rollback: the handler takes the last message back
\* (self.messages.pop()) before it re-raises
LLMFailsRollsBack(t) ==
  /\ running = t
  /\ pc[t] = "call_llm"
  /\ llm_request' = LLMRequest
  /\ heap' = [heap EXCEPT ![client.messages] = SubSeq(@, 1, Len(@) - 1)]
  /\ pc' = [pc EXCEPT ![t] = "model_error"]
  /\ running' = 0
  /\ before' = [before EXCEPT ![t] = NoBefore]
  /\ UNCHANGED <<conversations, client, disk, messages, turnvars, started, epoch, appended>>
  /\ reply' = NoReply /\ UNCHANGED <<minted, loads, writing, invoked, upload>>

\* the model call raises: call_llm re-raises, process_query re-raises, 500
LLMFails(t) ==
  /\ running = t
  /\ pc[t] = "call_llm"
  /\ llm_request' = LLMRequest
  /\ pc' = [pc EXCEPT ![t] = "model_error"]
  /\ running' = 0
  /\ before' = [before EXCEPT ![t] = NoBefore]
  /\ UNCHANGED <<heap, conversations, client, disk, messages, turnvars, started, epoch,
                 appended>>
  /\ reply' = NoReply /\ UNCHANGED <<minted, loads, writing, invoked, upload>>

\* the response carries n tool calls: one assistant message records them all
LLMReturnsToolCalls(t, n, c, a) ==
  /\ running = t
  /\ pc[t] = "call_llm"
  /\ appended < MaxAppends
  /\ llm_request' = LLMRequest
  /\ LET tc == ToolCalls(t, rounds[t] + 1, n, a) IN
       /\ tool_calls' = [tool_calls EXCEPT ![t] = tc]
       /\ AppendBoth(t, AssistantToolCallMessage(t, c, tc))
  /\ rounds' = [rounds EXCEPT ![t] = @ + 1]
  /\ pc' = [pc EXCEPT ![t] = "log_assistant"]
  /\ UNCHANGED <<conversations, client, disk, convo_id, idx, before, running, started, epoch>>
  /\ reply' = NoReply /\ UNCHANGED <<minted, loads, writing, invoked, upload>>

\* the response carries no tool call: the final assistant message
LLMReturnsText(t, c) ==
  /\ running = t
  /\ pc[t] = "call_llm"
  /\ appended < MaxAppends
  /\ llm_request' = LLMRequest
  /\ tool_calls' = [tool_calls EXCEPT ![t] = <<>>]
  /\ AppendBoth(t, AssistantTextMessage(t, c))
  /\ pc' = [pc EXCEPT ![t] = "log_final"]
  /\ UNCHANGED <<conversations, client, disk, convo_id, idx, rounds, before, running,
                 started, epoch>>
  /\ reply' = NoReply /\ UNCHANGED <<minted, loads, writing, invoked, upload>>

\* the for loop reaches tool_calls[idx]: `await self.session.call_tool(...)`
\* suspends the handler and frees the event loop
InvokeTool(t) ==
  /\ running = t
  /\ pc[t] = "tool"
  /\ pc' = [pc EXCEPT ![t] = "in_tool"]
  /\ running' = 0
  /\ UNCHANGED <<heap, conversations, client, disk, messages, turnvars, before, started, epoch,
                 llm_request, appended>>
  /\ reply' = NoReply /\ UNCHANGED <<minted, loads, writing, upload>>
  /\ invoked' = [invoked EXCEPT ![t] =
                   Append(@, [id |-> tool_calls[t][idx[t]].id,
                              name |-> tool_calls[t][idx[t]].name,
                              tool_args |-> ToolArgs(tool_calls[t][idx[t]].arguments)])]

\* the tool call returns: the handler resumes and appends the result to
\* self.messages, whatever list the shared client holds by now
ToolReturns(t) ==
  /\ running = 0
  /\ pc[t] = "in_tool"
  /\ appended < MaxAppends
  /\ running' = t
  /\ AppendBoth(t, ToolResultMessage(t, tool_calls[t][idx[t]].id))
  /\ pc' = [pc EXCEPT ![t] = "log_tool_result"]
  /\ UNCHANGED <<conversations, client, disk, turnvars, before, started, epoch, llm_request>>
  /\ reply' = NoReply /\ UNCHANGED <<minted, loads, writing, invoked, upload>>

\* ToolRaises without the inner except: the exception leaves process_query
ToolRaisesAborts(t) ==
  /\ running = 0
  /\ pc[t] = "in_tool"
  /\ appended < MaxAppends
  /\ pc' = [pc EXCEPT ![t] = "model_error"]
  /\ before' = [before EXCEPT ![t] = NoBefore]
  /\ UNCHANGED <<heap, conversations, client, disk, messages, turnvars, running, started,
                 epoch, llm_request, appended>>
  /\ reply' = NoReply /\ UNCHANGED <<minted, loads, writing, invoked, upload>>

\* ToolRaises that tries the request again instead of answering it
ToolRaisesRetries(t) ==
  /\ running = 0
  /\ pc[t] = "in_tool"
  /\ appended < MaxAppends
  /\ running' = t
  /\ pc' = [pc EXCEPT ![t] = "tool"]
  /\ UNCHANGED <<heap, conversations, client, disk, messages, turnvars, before, started,
                 epoch, llm_request, appended>>
  /\ reply' = NoReply /\ UNCHANGED <<minted, loads, writing, invoked, upload>>

\* the tool call raises: except Exception appends the error message
ToolRaises(t) ==
  /\ running = 0
  /\ pc[t] = "in_tool"
  /\ appended < MaxAppends
  /\ running' = t
  /\ AppendBoth(t, ToolErrorMessage(t, tool_calls[t][idx[t]].id))
  /\ pc' = [pc EXCEPT ![t] = "log_tool_error"]
  /\ UNCHANGED <<conversations, client, disk, turnvars, before, started, epoch, llm_request>>
  /\ reply' = NoReply /\ UNCHANGED <<minted, loads, writing, invoked, upload>>

\* the handler's task is cancelled while it waits for the tool:
\* CancelledError is no Exception, no handler catches it
Cancel(t) ==
  /\ running = 0
  /\ pc[t] = "in_tool"
  /\ pc' = [pc EXCEPT ![t] = "cancelled"]
  /\ before' = [before EXCEPT ![t] = NoBefore]
  /\ UNCHANGED <<heap, conversations, client, disk, messages, turnvars, running, started,
                 epoch, llm_request, appended>>
  /\ reply' = NoReply /\ UNCHANGED <<minted, loads, writing, invoked, upload>>

\* main.py: conversations[convo_id] = client.messages; return the messages
StoreMessages(t) ==
  /\ running = t
  /\ pc[t] = "store"
  /\ conversations' = (convo_id[t] :> client.messages) @@ conversations
  /\ pc' = [pc EXCEPT ![t] = "done"]
  /\ running' = 0
  /\ before' = [before EXCEPT ![t] = NoBefore]
  /\ UNCHANGED <<heap, client, disk, messages, turnvars, started, epoch, llm_request,
                 appended>>
  /\ reply' = NoReply /\ UNCHANGED <<minted, loads, writing, invoked, upload>>

\* ------------------------------------------ the other handlers of main.py
\* every id a request can name
AllIds == ConvIds \cup MintedIds

\* the table without the entry of cid: del conversations[cid]
Without(cid) == [X \in DOMAIN conversations \ {cid} |-> conversations[X]]

\* GET /conversations: list(conversations.keys())
ListConversations ==
  /\ running = 0
  /\ reply' = [op |-> "list", ids |-> DOMAIN conversations]
  /\ UNCHANGED <<heap, conversations, client, disk, pc, messages, turnvars, running, started,
                 epoch, llm_request, appended, before, minted, loads, writing, invoked, upload>>

\* GET /conversations/{cid}: 404 when cid is not in the table
GetConversation(cid) ==
  /\ running = 0
  /\ reply' = IF cid \in DOMAIN conversations
                THEN [op |-> "get", id |-> cid, status |-> 200,
                      messages |-> heap[conversations[cid]]]
                ELSE [op |-> "get", id |-> cid, status |-> 404, messages |-> <<>>]
  /\ UNCHANGED <<heap, conversations, client, disk, pc, messages, turnvars, running, started,
                 epoch, llm_request, appended, before, minted, loads, writing, invoked, upload>>

\* POST /conversations/delete: del conversations[cid], 404 when cid is not
\* in the table
DeleteConversation(cid) ==
  /\ running = 0
  /\ IF cid \in DOMAIN conversations
       THEN /\ conversations' = Without(cid)
            /\ reply' = [op |-> "delete", id |-> cid, status |-> 200]
       ELSE /\ conversations' = conversations
            /\ reply' = [op |-> "delete", id |-> cid, status |-> 404]
  /\ UNCHANGED <<heap, client, disk, pc, messages, turnvars, running, started,
                 epoch, llm_request, appended, before, minted, loads, writing, invoked, upload>>

\* ------------------------------------------- the store, seen step by step
Absent == [id |-> 0, created_at |-> 0, messages |-> <<"absent">>]
\* the file conversations/<f>.json as a reader finds it
File(f) == IF f \in DOMAIN disk THEN disk[f] ELSE Absent

\* log_conversation, `with open(path, "w") as f:`: the file is empty from
\* here until json.dump has written it
OpenFile(t) ==
  /\ running = t
  /\ pc[t] \in LogPcs
  /\ writing = NotWriting
  /\ writing' = [by |-> t, previous |-> File(ConversationPath)]
  /\ disk' = (ConversationPath :> TruncatedFile) @@ disk
  /\ reply' = NoReply
  /\ UNCHANGED <<heap, conversations, client, pc, messages, turnvars, running, started,
                 epoch, llm_request, appended, before, minted, loads, invoked, upload>>

\* another process that shares the directory reads the file of conversation f
ReadElsewhere(f) ==
  /\ reply' = [op |-> "read", id |-> f, file |-> File(f)]
  /\ UNCHANGED <<heap, conversations, client, disk, pc, messages, turnvars, running, started,
                 epoch, llm_request, appended, before, minted, loads, writing, invoked, upload>>

\* load_conversation that starts an empty conversation, file and all, when it
\* finds none
LoadConversationCreates(cid) ==
  /\ running = 0
  /\ cid \notin DOMAIN disk
  /\ client' = [client EXCEPT !.conversation_id = cid]
  /\ disk' = (cid :> [id |-> cid, created_at |-> 0, messages |-> <<>>]) @@ disk
  /\ reply' = [op |-> "load", id |-> cid, raised |-> None]
  /\ UNCHANGED <<heap, conversations, pc, messages, turnvars, running, started,
                 epoch, llm_request, appended, before, minted, loads, writing, invoked, upload>>

\* load_conversation(cid) on the shared client, between two requests: the id
\* is taken over first, then the file is looked for, read and parsed
LoadConversationCall(cid) ==
  /\ running = 0
  /\ IF cid \notin DOMAIN disk
       THEN /\ client' = [client EXCEPT !.conversation_id = cid]
            /\ heap' = heap
            /\ loads' = loads
            /\ reply' = [op |-> "load", id |-> cid, raised |-> "FileNotFoundError"]
       ELSE IF disk[cid] = TruncatedFile
       THEN /\ client' = [client EXCEPT !.conversation_id = cid]
            /\ heap' = heap
            /\ loads' = loads
            /\ reply' = [op |-> "load", id |-> cid, raised |-> "JSONDecodeError"]
       ELSE /\ loads < MaxLoads
            /\ loads' = loads + 1
            /\ client' = [client EXCEPT !.conversation_id = cid,
                                        !.messages = Len(heap) + 1,
                                        !.created_at = disk[cid].created_at]
            /\ heap' = Append(heap, disk[cid].messages)
            /\ reply' = [op |-> "load", id |-> cid, raised |-> None]
  /\ UNCHANGED <<conversations, disk, pc, messages, turnvars, running, started,
                 epoch, llm_request, appended, before, minted, writing, invoked, upload>>

\* log_conversation that opens the file with mode "a": what it writes
\* follows what the file held
LogConversationAppends ==
  /\ running = 0
  /\ writing = NotWriting
  /\ LET data_to_save ==
           [DataToSave(ClientMessages) EXCEPT
              !.messages = (IF ConversationPath \in DOMAIN disk
                              THEN disk[ConversationPath].messages ELSE <<>>) \o @] IN
       /\ disk' = (ConversationPath :> data_to_save) @@ disk
       /\ reply' = [op |-> "save", record |-> data_to_save, again |-> reply.op = "save"]
  /\ UNCHANGED <<heap, conversations, client, pc, messages, turnvars, running, started,
                 epoch, llm_request, appended, before, minted, loads, writing, invoked, upload>>

\* log_conversation(self.messages) on the shared client, between two
\* requests, running to its end: the file holds data_to_save.  `again` is
\* history: the step before was such a save too.
LogConversationCall ==
  /\ running = 0
  /\ writing = NotWriting
  /\ LET data_to_save == DataToSave(ClientMessages) IN
       /\ disk' = (ConversationPath :> data_to_save) @@ disk
       /\ reply' = [op |-> "save", record |-> data_to_save, again |-> reply.op = "save"]
  /\ UNCHANGED <<heap, conversations, client, pc, messages, turnvars, running, started,
                 epoch, llm_request, appended, before, minted, loads, writing, invoked, upload>>

\* ------------------------------------------------------------ POST /file
\* handle_file_upload up to `await app.state.client.call_tool(...)`: the id
\* is the caller's or a new uuid4, and the handler waits for the tool
FileBegin(u, cid) ==
  /\ running = 0
  /\ upload[u].pc = "new"
  /\ \A v \in Uploads : v < u => upload[v].pc # "new"
  /\ cid = EmptyId => minted < MaxMinted
  /\ minted' = IF cid = EmptyId THEN minted + 1 ELSE minted
  /\ upload' = [upload EXCEPT ![u] =
                  [pc |-> "in_tool",
                   convo_id |-> IF cid = EmptyId THEN Uuid4(minted + 1) ELSE cid,
                   during |-> {}]]
  /\ reply' = NoReply
  /\ UNCHANGED <<heap, conversations, client, disk, pc, messages, turnvars, running, started,
                 epoch, llm_request, appended, before, loads, writing, invoked>>

\* the /query turns on conversation id X that wait for a tool
Suspended(X) == {t \in Turns : pc[t] = "in_tool" /\ convo_id[t] = X}

\* the tool answered the upload.  json.dumps(result) raises TypeError when
\* the result the session returned is no JSON value: the handler answers 500
\* and nothing is stored.  Otherwise the two messages go to the list the
\* table holds for the id, a new list when the id is not in the table; the
\* save to memory is all there is, no file is written.  `during` is history:
\* the turns on the same id that were waiting for a tool at this moment.
FileToolReturns(u, serializable) ==
  /\ running = 0
  /\ upload[u].pc = "in_tool"
  /\ LET X == upload[u].convo_id IN
       IF ~serializable
         THEN /\ upload' = [upload EXCEPT ![u].pc = "error"]
              /\ reply' = [op |-> "file", id |-> X, status |-> 500, detail |-> "TypeError"]
              /\ UNCHANGED <<heap, conversations>>
         ELSE /\ IF X \in DOMAIN conversations
                   THEN /\ heap' = [heap EXCEPT ![conversations[X]] = @ \o UploadMessages(u)]
                        /\ conversations' = conversations
                   ELSE /\ heap' = Append(heap, UploadMessages(u))
                        /\ conversations' = (X :> Len(heap) + 1) @@ conversations
              /\ upload' = [upload EXCEPT ![u].pc = "done", ![u].during = Suspended(X)]
              /\ reply' = [op |-> "file", id |-> X, status |-> 200, detail |-> None]
  /\ UNCHANGED <<client, disk, pc, messages, turnvars, running, started, epoch, llm_request,
                 appended, before, minted, loads, writing, invoked>>

\* FileToolRaises of a handler that enters an unknown id in the table before
\* it calls the tool
FileToolRaisesCreates(u) ==
  /\ running = 0
  /\ upload[u].pc = "in_tool"
  /\ upload' = [upload EXCEPT ![u].pc = "error"]
  /\ reply' = [op |-> "file", id |-> upload[u].convo_id, status |-> 500,
                detail |-> "Failed to call tool"]
  /\ IF upload[u].convo_id \in DOMAIN conversations
       THEN UNCHANGED <<heap, conversations>>
       ELSE /\ heap' = Append(heap, <<>>)
            /\ conversations' = (upload[u].convo_id :> Len(heap) + 1) @@ conversations
  /\ UNCHANGED <<client, disk, pc, messages, turnvars, running, started,
                 epoch, llm_request, appended, before, minted, loads, writing, invoked>>

\* client.call_tool raises "Failed to call tool": /file answers 500
FileToolRaises(u) ==
  /\ running = 0
  /\ upload[u].pc = "in_tool"
  /\ upload' = [upload EXCEPT ![u].pc = "error"]
  /\ reply' = [op |-> "file", id |-> upload[u].convo_id, status |-> 500,
                detail |-> "Failed to call tool"]
  /\ UNCHANGED <<heap, conversations, client, disk, pc, messages, turnvars, running, started,
                 epoch, llm_request, appended, before, minted, loads, writing, invoked>>

\* the process stops and starts again: lifespan builds a new MCPClient and an
\* empty table; the files stay.  Handlers of the old process are gone.
Restart ==
  /\ running = 0
  /\ epoch < MaxRestarts
  /\ epoch' = epoch + 1
  /\ client' = NewClient(epoch + 1)
  /\ heap' = << <<>> >>
  /\ conversations' = <<>>
  /\ pc' = [t \in Turns |-> IF pc[t] = "new" THEN "new" ELSE "gone"]
  /\ messages' = [t \in Turns |-> <<>>]
  /\ tool_calls' = [t \in Turns |-> <<>>]
  /\ idx' = [t \in Turns |-> 0]
  /\ rounds' = [t \in Turns |-> 0]
  /\ before' = [t \in Turns |-> NoBefore]
  /\ llm_request' = NoRequest
  /\ UNCHANGED <<disk, convo_id, running, started, appended>>
  /\ reply' = NoReply /\ UNCHANGED <<minted, loads, writing>>
  /\ invoked' = [t \in Turns |-> <<>>]
  /\ upload' = [u \in Uploads |->
                  IF upload[u].pc = "in_tool" THEN [upload[u] EXCEPT !.pc = "gone"]
                  ELSE upload[u]]

Next ==
  \/ \E t \in Turns, cid \in ConvIds : Begin(t, cid)
  \/ \E t \in Turns : AppendUser(t)
  \/ \E t \in Turns : LogSucceeds(t)
  \/ \E t \in Turns, truncated \in BOOLEAN : LogFails(t, truncated)
  \/ \E t \in Turns : LLMFails(t)
  \/ \E t \in Turns, n \in 1..MaxCalls, c \in AssistantContents : LLMReturnsToolCalls(t, n, c, "{}")
  \/ \E t \in Turns, c \in AssistantContents : LLMReturnsText(t, c)
  \/ \E t \in Turns : InvokeTool(t)
  \/ \E t \in Turns : ToolReturns(t)
  \/ \E t \in Turns : ToolRaises(t)
  \/ \E t \in Turns : Cancel(t)
  \/ \E t \in Turns : StoreMessages(t)
  \/ Restart

Spec == Init /\ [][Next]_vars

\* The session router: /query for a caller that sends its one id, an id
\* /query gave it or none, and the handlers that read and edit the table.
\* The model answers with at most one tool call and a failing save leaves the
\* file as it was; id 2 is never sent to /query, so it is always unknown.
NextRouter ==
  \/ \E t \in Turns, cid \in {EmptyId, 1} \cup MintedIds : Begin(t, cid)
  \/ \E t \in Turns : AppendUser(t)
  \/ \E t \in Turns : LogSucceeds(t)
  \/ \E t \in Turns : LogFails(t, FALSE)
  \/ \E t \in Turns : LLMFails(t)
  \/ \E t \in Turns : LLMReturnsToolCalls(t, 1, "text", "{}")
  \/ \E t \in Turns : LLMReturnsText(t, "text")
  \/ \E t \in Turns : InvokeTool(t)
  \/ \E t \in Turns : ToolReturns(t)
  \/ \E t \in Turns : ToolRaises(t)
  \/ \E t \in Turns : Cancel(t)
  \/ \E t \in Turns : StoreMessages(t)
  \/ ListConversations
  \/ \E cid \in AllIds : GetConversation(cid)
  \/ \E cid \in AllIds : DeleteConversation(cid)

SpecRouter == Init /\ [][NextRouter]_vars

\* The conversation store: turns that the model answers with text or not at
\* all, with every save in its two steps, a reader in another process, and
\* the must-exist reads.
NextStore ==
  \/ \E t \in Turns : Begin(t, 1)
  \/ \E t \in Turns : AppendUser(t)
  \/ \E t \in Turns : OpenFile(t)
  \/ \E t \in Turns : LogSucceeds(t)
  \/ \E t \in Turns : LogFails(t, FALSE)
  \/ \E t \in Turns : LLMFails(t)
  \/ \E t \in Turns : LLMReturnsText(t, "text")
  \/ \E t \in Turns : StoreMessages(t)
  \/ \E f \in DOMAIN disk \cup {ConversationPath} : ReadElsewhere(f)
  \/ \E cid \in {1} \cup DOMAIN disk : LoadConversationCall(cid)
  \/ \E cid \in ConvIds : GetConversation(cid)

SpecStore == Init /\ [][NextStore]_vars

\* Saves of the client's list by themselves: turns that the model answers
\* with text or not at all, loads of the files there are, and
\* log_conversation called between two requests.
NextSave ==
  \/ \E t \in Turns : Begin(t, 1)
  \/ \E t \in Turns : AppendUser(t)
  \/ \E t \in Turns : LogSucceeds(t)
  \/ \E t \in Turns : LogFails(t, FALSE)
  \/ \E t \in Turns : LLMFails(t)
  \/ \E t \in Turns : LLMReturnsText(t, "text")
  \/ \E t \in Turns : StoreMessages(t)
  \/ \E cid \in DOMAIN disk : LoadConversationCall(cid)
  \/ LogConversationCall

SpecSave == Init /\ [][NextSave]_vars

\* Uploads next to turns: /query in one process whose model asks for at most
\* one tool call, and /file for the caller's id 1 or for no id.
NextFile ==
  \/ \E t \in Turns, cid \in ConvIds : Begin(t, cid)
  \/ \E t \in Turns : AppendUser(t)
  \/ \E t \in Turns : LogSucceeds(t)
  \/ \E t \in Turns : LogFails(t, FALSE)
  \/ \E t \in Turns : LLMFails(t)
  \/ \E t \in Turns : LLMReturnsToolCalls(t, 1, "text", "{}")
  \/ \E t \in Turns : LLMReturnsText(t, "text")
  \/ \E t \in Turns : InvokeTool(t)
  \/ \E t \in Turns : ToolReturns(t)
  \/ \E t \in Turns : ToolRaises(t)
  \/ \E t \in Turns : StoreMessages(t)
  \/ \E u \in Uploads, cid \in {EmptyId, 1} : FileBegin(u, cid)
  \/ \E u \in Uploads, serializable \in BOOLEAN : FileToolReturns(u, serializable)
  \/ \E u \in Uploads : FileToolRaises(u)

SpecFile == Init /\ [][NextFile]_vars

\* Deletes next to turns: one caller's id 1, filled by /file or /query, with
\* /query turns that wait for a tool while the entry is deleted.  Tools of
\* turns answer; the tool of an upload answers or fails.
NextDelete ==
  \/ \E t \in Turns : Begin(t, 1)
  \/ \E t \in Turns : AppendUser(t)
  \/ \E t \in Turns : LogSucceeds(t)
  \/ \E t \in Turns : LogFails(t, FALSE)
  \/ \E t \in Turns : LLMFails(t)
  \/ \E t \in Turns : LLMReturnsToolCalls(t, 1, "text", "{}")
  \/ \E t \in Turns : LLMReturnsText(t, "text")
  \/ \E t \in Turns : InvokeTool(t)
  \/ \E t \in Turns : ToolReturns(t)
  \/ \E t \in Turns : StoreMessages(t)
  \/ \E u \in Uploads : FileBegin(u, 1)
  \/ \E u \in Uploads, serializable \in BOOLEAN : FileToolReturns(u, serializable)
  \/ \E u \in Uploads : FileToolRaises(u)
  \/ DeleteConversation(1)

SpecDelete == Init /\ [][NextDelete]_vars

\* no request is being handled: no turn and no upload is under way
OneAtATime == Quiescent /\ \A u \in Uploads : upload[u].pc # "in_tool"

\* Requests handled strictly one after another: /query and /file, each
\* received only when the one before it has been answered.  Tools answer;
\* a turn fails by its model call or by a save.
NextSequential ==
  \/ \E t \in Turns, cid \in ConvIds : OneAtATime /\ Begin(t, cid)
  \/ \E t \in Turns : AppendUser(t)
  \/ \E t \in Turns : LogSucceeds(t)
  \/ \E t \in Turns : LogFails(t, FALSE)
  \/ \E t \in Turns : LLMFails(t)
  \/ \E t \in Turns : LLMReturnsToolCalls(t, 1, "text", "{}")
  \/ \E t \in Turns : LLMReturnsText(t, "text")
  \/ \E t \in Turns : InvokeTool(t)
  \/ \E t \in Turns : ToolReturns(t)
  \/ \E t \in Turns : StoreMessages(t)
  \/ \E u \in Uploads, cid \in ConvIds : OneAtATime /\ FileBegin(u, cid)
  \/ \E u \in Uploads, serializable \in BOOLEAN : FileToolReturns(u, serializable)
  \/ \E u \in Uploads : FileToolRaises(u)

SpecSequential == Init /\ [][NextSequential]_vars

\* The tool loop: /query with requests whose argument strings parse or do
\* not, in one process that is not restarted.
NextTools ==
  \/ \E t \in Turns, cid \in ConvIds : Begin(t, cid)
  \/ \E t \in Turns : AppendUser(t)
  \/ \E t \in Turns : LogSucceeds(t)
  \/ \E t \in Turns : LogFails(t, FALSE)
  \/ \E t \in Turns : LLMFails(t)
  \/ \E t \in Turns, n \in 1..MaxCalls, a \in ArgumentStrings : LLMReturnsToolCalls(t, n, "text", a)
  \/ \E t \in Turns : LLMReturnsText(t, "text")
  \/ \E t \in Turns : InvokeTool(t)
  \/ \E t \in Turns : ToolReturns(t)
  \/ \E t \in Turns : ToolRaises(t)
  \/ \E t \in Turns : Cancel(t)
  \/ \E t \in Turns : StoreMessages(t)

SpecTools == Init /\ [][NextTools]_vars

\* The steps the event loop takes for turn t by itself: a handler that can
\* run is run, and a model call is a blocking call of the OpenAI client, which
\* returns or raises.  The answer of a tool is not among them:
\* session.call_tool is awaited without a deadline.
HandlerStep(t) ==
  \/ AppendUser(t)
  \/ LogSucceeds(t)
  \/ LogFails(t, FALSE)
  \/ LLMFails(t)
  \/ \E n \in 1..MaxCalls, a \in ArgumentStrings : LLMReturnsToolCalls(t, n, "text", a)
  \/ LLMReturnsText(t, "text")
  \/ InvokeTool(t)
  \/ StoreMessages(t)

\* the tool loop under a fair event loop
SpecToolsFair == Init /\ [][NextTools]_vars /\ \A t \in Turns : WF_vars(HandlerStep(t))

\* ------------------------------------------------------------ the claims
\* the transcript the session router holds for conversation id X
Transcript(X) == heap[conversations[X]]
\* the conversation id of the turn that appended m
ConvOf(m) == convo_id[m.by]

\* s[i], a tool-role message, answers request k of the assistant message k
\* places before it, with nothing but tool-role messages in between
AnswersRequest(s, i) ==
  \E k \in 1..(i - 1) :
    LET j == i - k IN
      /\ s[j].role = "assistant"
      /\ k <= Len(s[j].tool_calls)
      /\ s[j].tool_calls[k].id = s[i].tool_call_id
      /\ \A l \in (j + 1)..(i - 1) : s[l].role = "tool"

\* every request of the assistant message s[j] has its tool-role message
AllAnswered(s, j) ==
  \A k \in 1..Len(s[j].tool_calls) :
    /\ j + k <= Len(s)
    /\ s[j + k].role = "tool"
    /\ s[j + k].tool_call_id = s[j].tool_calls[k].id

Ordered(s) ==
  \A i \in 1..Len(s) :
    /\ s[i].role = "tool" => AnswersRequest(s, i)
    /\ s[i].role = "assistant" =>
         \/ AllAnswered(s, i)
         \/ \A l \in (i + 1)..Len(s) : s[l].role = "tool"

Complete(s) == \A i \in 1..Len(s) : s[i].role = "assistant" => AllAnswered(s, i)

\* C1: ordering invariant.  In every transcript of the session router each
\* tool-role message answers, in request order, a request of the nearest
\* preceding assistant message, no user or assistant message appears before
\* all requests are answered, and once no turn is running every assistant
\* message with N requests is followed by its N tool-role messages.
C1_OrderingInvariant ==
  \A X \in DOMAIN conversations :
    /\ Ordered(Transcript(X))
    /\ Quiescent => Complete(Transcript(X))

\* C2: turns on different conversation ids share no transcript state: the
\* transcript of X holds no message appended by a turn on another id.
C2_TranscriptsIsolated ==
  \A X \in DOMAIN conversations :
    \A i \in 1..Len(Transcript(X)) : ConvOf(Transcript(X)[i]) = X

\* C3: turns on one conversation id do not interleave: while a turn on X is
\* running, nothing that follows its user message in X's transcript was
\* appended by another turn on X.
C3_SameIdSerialized ==
  \A X \in DOMAIN conversations : \A t \in Turns :
    InFlight(t) /\ convo_id[t] = X =>
      \A i \in 1..Len(Transcript(X)) : \A j \in (i + 1)..Len(Transcript(X)) :
        Transcript(X)[i] = UserMessage(t) =>
          \/ Transcript(X)[j].by = t
          \/ ConvOf(Transcript(X)[j]) # X

\* C4: the durable store is keyed by conversation id: with no request in
\* progress every conversation of the session router has a durable record
\* with its id and its full transcript.  (No file is ever named after a
\* conversation id, so the second half of the claim, that work on another id
\* leaves that record alone, has nothing to speak about.)
C4_StoreKeyedById ==
  Quiescent =>
    \A X \in DOMAIN conversations :
      /\ X \in DOMAIN disk
      /\ disk[X].id = X
      /\ disk[X].messages = SerializableConversation(Transcript(X))

\* the files an earlier process left that hold messages of turns on X only
StoredBefore(X) ==
  {f \in DOMAIN disk :
     /\ f # ConversationPath
     /\ disk[f].messages # <<>>
     /\ \A i \in 1..Len(disk[f].messages) : ConvOf(disk[f].messages[i]) = X}

\* C5: resumption.  After a restart a finished turn on X leaves a transcript
\* that starts with the messages stored for X before the restart.
C5_Resumption ==
  \A t \in Turns :
    pc[t] = "done" /\ convo_id[t] \in DOMAIN conversations =>
      \A f \in StoredBefore(convo_id[t]) :
        IsPrefix(disk[f].messages, Transcript(convo_id[t]))

\* C6: round trip.  Right after log_conversation(self.messages) succeeded,
\* load_conversation gives back the sequence that was saved.
C6_RoundTrip ==
  \A t \in Turns :
    running = t /\ pc[t] \in {"call_llm", "tool", "store"} =>
      LoadConversation(ConversationPath) = ClientMessages

\* the model call of turn t fails in this step
ModelFailure(t) == pc[t] = "call_llm" /\ pc'[t] = "model_error"

\* C7 as stated: after a failed model call the persisted transcript is what
\* it was before the turn was started.
C7_PersistedAsBeforeTurn ==
  [][\A t \in Turns : ModelFailure(t) => disk' = before[t].disk]_vars

\* C7, amended: a failing model call ends the turn with an error and changes
\* neither the lists nor the store, so the persisted record stays the saved
\* form of the message list as of that call; when it is the first model call
\* of the turn that list is the transcript from before the turn followed by
\* the turn's user message.
C7_PersistedAsOfFailedCall ==
  [][\A t \in Turns : ModelFailure(t) =>
       /\ disk' = disk /\ heap' = heap /\ conversations' = conversations
       /\ ConversationPath \in DOMAIN disk
       /\ disk[ConversationPath] = DataToSave(ClientMessages)
       /\ rounds[t] = 0 =>
            ClientMessages = before[t].transcript \o <<UserMessage(t)>>]_vars

\* a first model call failed; the store holds the user message of that turn
C7_Witness ==
  \E t \in Turns :
    /\ pc[t] = "model_error" /\ rounds[t] = 0
    /\ ConversationPath \in DOMAIN disk
    /\ disk[ConversationPath].messages # <<>>
    /\ Last(disk[ConversationPath].messages) = UserMessage(t)

\* the tool call of turn t raises in this step: the handler leaves the call,
\* and not with a result, by a cancellation or with the process
ToolFailure(t) ==
  pc[t] = "in_tool" /\ pc'[t] \notin {"in_tool", "log_tool_result", "cancelled", "gone"}

\* C8: recovered tool failure.  When the tool call for a request raises,
\* exactly one message is appended, a tool-role message with the id of that
\* request and an error string, and the turn goes on; once that message is
\* saved the loop takes the next request, or calls the model again after the
\* last one.
C8_ToolFailureRecovered ==
  [][\A t \in Turns :
       /\ ToolFailure(t) =>
            LET m == ToolErrorMessage(t, tool_calls[t][idx[t]].id) IN
              /\ heap' = [heap EXCEPT ![client.messages] = Append(@, m)]
              /\ messages'[t] = Append(messages[t], m)
              /\ m.role = "tool" /\ m.tool_call_id = tool_calls[t][idx[t]].id
              /\ pc'[t] = "log_tool_error"
       /\ pc[t] = "log_tool_error" /\ pc'[t] \notin {"log_tool_error", "store_error", "gone"} =>
            /\ heap' = heap
            /\ IF idx[t] < Len(tool_calls[t])
                 THEN pc'[t] = "tool" /\ idx'[t] = idx[t] + 1
                 ELSE pc'[t] = "call_llm"]_vars

\* the tool raised for the first of two requests, the second was executed
\* and the loop is back at the model call
C8_Witness ==
  \E t \in Turns :
    /\ pc[t] = "call_llm" /\ Len(tool_calls[t]) = 2 /\ Len(messages[t]) = 5
    /\ messages[t][4] = ToolErrorMessage(t, tool_calls[t][1].id)
    /\ messages[t][5] = ToolResultMessage(t, tool_calls[t][2].id)

\* C9: every model request is the system message followed by the history of
\* the conversation and every message appended so far in this turn.
C9_RequestHasSystemAndHistory ==
  [][\A t \in Turns : pc[t] = "call_llm" /\ pc'[t] # "call_llm" =>
       llm_request'.messages =
         <<SystemMessage>> \o before[t].transcript \o Tail(messages[t])]_vars

\* the messages turn t appended to list a, in order
AppendedIn(a, t) == SelectSeq(heap[a], LAMBDA m : m.by = t)
InList(a, m) == \E i \in 1..Len(heap[a]) : heap[a][i] = m

\* C10 as stated: the list a turn returns is the messages it appended to the
\* transcript of its conversation.
C10_ReturnsDelta ==
  \A t \in Turns :
    pc[t] = "done" => messages[t] = AppendedIn(conversations[convo_id[t]], t)

\* C10, with the system message at the head of the list allowed for: the
\* list a turn returns is the system message followed by exactly the messages
\* the turn appended to the client's message list, in the order in which it
\* appended them.
C10_ReturnsSystemThenDelta ==
  \A t \in Turns :
    pc[t] = "done" =>
      /\ messages[t] # <<>>
      /\ Head(messages[t]) = SystemMessage
      /\ \A i \in 2..Len(messages[t]) :
           messages[t][i].by = t /\ \E a \in 1..Len(heap) : InList(a, messages[t][i])
      /\ \A a \in 1..Len(heap) :
           AppendedIn(a, t) = SelectSeq(Tail(messages[t]), LAMBDA m : InList(a, m))

\* a finished turn with one tool round: system, user, assistant, tool, assistant
C10_Witness ==
  \E t \in Turns :
    /\ pc[t] = "done" /\ Len(messages[t]) = 5
    /\ messages[t][4].role = "tool"
    /\ Transcript(convo_id[t]) = Tail(messages[t])

\* the messages of the durable record the client writes
Persisted == disk[ConversationPath].messages

\* C11: append/persist pairing.  When the handler of a turn suspends, every
\* message appended so far is in the durable record, and every save after the
\* turn's first one changes the durable record into itself followed by exactly
\* one message: never a shorter or rewritten one, never two messages at once.
C11_AppendPersistPairing ==
  [][\A t \in Turns :
       /\ pc[t] = "tool" /\ pc'[t] = "in_tool" =>
            Persisted = SerializableConversation(ClientMessages)
       /\ running = t /\ pc[t] \in LogPcs \ {"log_user"} /\ disk' # disk =>
            disk'[ConversationPath].messages =
              Append(Persisted, SerializableMessage(Last(ClientMessages)))]_vars

\* the steps of a tool-calling round, from the save of the assistant message
\* to the save of the last tool message
RoundPcs == {"log_assistant", "tool", "in_tool", "log_tool_result", "log_tool_error"}

\* the local list s ends with an assistant message recording the requests tc
\* followed by tool-role messages only, at least one for every request
RoundExecuted(s, tc) ==
  \E j \in 1..Len(s) :
    /\ s[j].role = "assistant" /\ s[j].tool_calls = tc
    /\ \A i \in (j + 1)..Len(s) : s[i].role = "tool"
    /\ \A k \in 1..Len(tc) : \E i \in (j + 1)..Len(s) : s[i].tool_call_id = tc[k].id

\* C12: a turn becomes done only right after a model response without tool
\* calls, with nothing but the save of that response in between.  A response
\* with requests appends exactly one assistant message that records all of
\* them; the turn then stays in the round until every request was executed
\* and goes from there to the next model call, never to the end of the turn.
C12_DoneOnlyAfterTextResponse ==
  [][\A t \in Turns :
       /\ pc'[t] = "done" /\ pc[t] # "done" =>
            /\ pc[t] = "store"
            /\ Last(messages[t]).role = "assistant" /\ Last(messages[t]).tool_calls = <<>>
       /\ pc'[t] = "store" /\ pc[t] # "store" => pc[t] = "log_final"
       /\ pc'[t] = "log_final" /\ pc[t] # "log_final" =>
            pc[t] = "call_llm" /\ tool_calls'[t] = <<>>
       /\ pc[t] = "call_llm" /\ pc'[t] = "log_assistant" =>
            /\ tool_calls'[t] # <<>>
            /\ messages'[t] = Append(messages[t], Last(messages'[t]))
            /\ heap' = [heap EXCEPT ![client.messages] = Append(@, Last(messages'[t]))]
            /\ Last(messages'[t]).role = "assistant"
            /\ Last(messages'[t]).tool_calls = tool_calls'[t]
       /\ pc[t] \in RoundPcs =>
            pc'[t] \in RoundPcs \cup {"call_llm", "store_error", "cancelled", "gone"}
       /\ pc[t] \in RoundPcs /\ pc'[t] = "call_llm" =>
            RoundExecuted(messages'[t], tool_calls[t])]_vars

\* a finished turn whose first response asked for two tool calls
C12_Witness ==
  \E t \in Turns :
    /\ pc[t] = "done" /\ rounds[t] = 1 /\ Len(messages[t]) = 6
    /\ Len(messages[t][3].tool_calls) = 2
    /\ messages[t][4].role = "tool" /\ messages[t][5].role = "tool"
    /\ messages[t][6] \in {AssistantTextMessage(t, c) : c \in AssistantContents}

\* the number of tool-call requests recorded in the messages of s
RECURSIVE Requests(_)
Requests(s) == IF s = <<>> THEN 0 ELSE Len(Head(s).tool_calls) + Requests(Tail(s))

\* user message, then per round the assistant message and one tool-role
\* message per request in request order, then the final assistant text
TurnShape(s) ==
  /\ Len(s) >= 2
  /\ s[1].role = "user"
  /\ Last(s).role = "assistant" /\ Last(s).tool_calls = <<>>
  /\ \A i \in 2..Len(s) : s[i].role \in {"assistant", "tool"}
  /\ \A i \in 2..(Len(s) - 1) :
       s[i].role = "assistant" =>
         /\ s[i].tool_calls # <<>>
         /\ AllAnswered(s, i)
         /\ s[i + Len(s[i].tool_calls) + 1].role = "assistant"

\* C13: a finished turn with r tool-calling responses of n_1..n_r requests
\* appended to the transcript of its conversation exactly
\* 2 + r + (n_1 + ... + n_r) messages: the user message, per
\* round the assistant message and its n_i tool-role messages, and the final
\* assistant text.
C13_TurnAppends ==
  \A t \in Turns :
    pc[t] = "done" =>
      LET s == AppendedIn(conversations[convo_id[t]], t) IN
        /\ Len(s) = 2 + rounds[t] + Requests(s)
        /\ TurnShape(s)

\* the /query handler of turn t takes its request in this step
Begins(t) == pc[t] = "new" /\ pc'[t] = "query"

\* C14: session resolution.  A request without an id gets a new id that no
\* conversation, no other turn and no file has; a request with an id of the
\* table continues on the very list the table holds for it; a request with any
\* other id starts on a new empty list under the id it sent.  No request is
\* turned away: every one of them proceeds to its user message.
C14_SessionResolution ==
  [][\A t \in Turns : Begins(t) =>
       LET id == convo_id'[t] IN
         /\ reply' = NoReply
         /\ minted' # minted =>
              /\ id \notin DOMAIN conversations
              /\ \A u \in Turns : convo_id[u] # id
              /\ heap'[client'.messages] = <<>>
         /\ minted' = minted => id \in AllIds
         /\ minted' = minted /\ id \in DOMAIN conversations =>
              /\ client'.messages = conversations[id]
              /\ heap'[client'.messages] = Transcript(id)
         /\ id \notin DOMAIN conversations =>
              /\ heap'[client'.messages] = <<>>
              /\ \A X \in DOMAIN conversations : conversations[X] # client'.messages
         /\ conversations' = conversations /\ disk' = disk]_vars

\* a turn without an id finished under a minted id, a turn under the unknown
\* id 1 was started, and a third turn continues the minted id's transcript
C14_Witness ==
  \E t, u, v \in Turns :
    /\ convo_id[t] = Uuid4(1) /\ pc[t] = "done"
    /\ convo_id[v] = 1 /\ pc[v] = "model_error" /\ 1 \notin DOMAIN conversations
    /\ convo_id[u] = Uuid4(1) /\ pc[u] = "query"
    /\ client.messages = conversations[Uuid4(1)]
    /\ Len(ClientMessages) = 2

\* the handler of turn t returns in this step, with the messages or an error
TurnEnds(t) == InFlight(t) /\ pc'[t] \in {"done", "model_error", "store_error"}

\* C15: implicit creation.  When a turn ends, with the messages or with an
\* error, its conversation id is in the table, so that the list returns it and
\* its transcript can be fetched; and an id leaves the table only in a step
\* that is a successful delete of that id.
C15_ImplicitCreation ==
  [][/\ \A t \in Turns : TurnEnds(t) => convo_id[t] \in DOMAIN conversations'
     /\ \A X \in DOMAIN conversations :
          X \notin DOMAIN conversations' =>
            reply' = [op |-> "delete", id |-> X, status |-> 200]]_vars

\* C16: delete is idempotent.  A delete of an id the table does not hold
\* answers without an error and leaves the table as it was.
C16_DeleteIdempotent ==
  [][\A X \in AllIds :
       reply'.op = "delete" /\ reply'.id = X /\ X \notin DOMAIN conversations =>
         reply'.status = 200 /\ conversations' = conversations]_vars

\* C17: the must-exist reads.  load_conversation of an id without a file
\* raises FileNotFoundError and GET /conversations/{id} of an id that is not
\* in the table answers 404; neither makes a file, a table entry or a list.
C17_NotFoundCreatesNothing ==
  [][/\ reply'.op = "load" /\ reply'.id \notin DOMAIN disk =>
          /\ reply'.raised = "FileNotFoundError"
          /\ disk' = disk /\ conversations' = conversations /\ heap' = heap
     /\ reply'.op = "get" /\ reply'.id \notin DOMAIN conversations =>
          /\ reply'.status = 404
          /\ disk' = disk /\ conversations' = conversations /\ heap' = heap]_vars

\* load_conversation(1) has just raised FileNotFoundError while the store
\* holds the file of another conversation; nothing is stored for id 1
C17_Witness ==
  /\ reply = [op |-> "load", id |-> 1, raised |-> "FileNotFoundError"]
  /\ 1 \notin DOMAIN disk /\ 1 \notin DOMAIN conversations
  /\ disk # <<>>

\* C18: atomic save.  A reader of conversation X's file while a save of X is
\* under way finds the complete record from before the save or the complete
\* new record, never an empty or partial one.
C18_AtomicSave ==
  [][writing # NotWriting /\ reply'.op = "read" /\ reply'.id = ConversationPath =>
       reply'.file \in {writing.previous, DataToSave(ClientMessages)}]_vars

\* message m is in the durable record the client writes
IsPersisted(m) ==
  \E i \in 1..Len(Persisted) : Persisted[i] = SerializableMessage(m)

\* C19: store write failure.  After a save failed in turn t on X and ended
\* the turn with an error, the first successful save of a later turn on X
\* writes a record that holds every message turn t had appended.
C19_NothingLostAfterFailedSave ==
  \A t \in Turns : \A u \in Turns :
    /\ t < u /\ pc[t] = "store_error" /\ convo_id[u] = convo_id[t]
    /\ running = u /\ pc[u] = "call_llm" /\ rounds[u] = 0
    => \A i \in 2..Len(messages[t]) : IsPersisted(messages[t][i])

\* C20: terminal model failure.  When a model call fails in a turn on X, the
\* table holds a transcript for X, its saved form is the durable record as
\* the turn last wrote it, and it does not end with an assistant text of
\* this turn.
C20_TranscriptAsPersisted ==
  [][\A t \in Turns : ModelFailure(t) =>
       LET X == convo_id[t] IN
         /\ X \in DOMAIN conversations'
         /\ SerializableConversation(heap'[conversations'[X]]) =
              disk'[ConversationPath].messages
         /\ ~ (/\ Last(heap'[conversations'[X]]).role = "assistant"
               /\ Last(heap'[conversations'[X]]).tool_calls = <<>>
               /\ Last(heap'[conversations'[X]]).by = t)]_vars

\* C21: a failing model call is not retried and leaves no assistant message.
\* The step of the failure ends the turn with an error and changes no list,
\* so the transcript still ends with the message that was last in the request
\* the failing call sent; the turn makes no further step.
C21_ModelFailureIsFinal ==
  [][\A t \in Turns :
       /\ ModelFailure(t) =>
            /\ heap' = heap /\ messages' = messages /\ conversations' = conversations
            /\ running' = 0
            /\ llm_request'.messages = ClientMessages
            /\ Last(heap'[client'.messages]) = Last(llm_request'.messages)
       /\ pc[t] = "model_error" => pc'[t] \in {"model_error", "gone"}]_vars

\* the second model call of a turn failed: the transcript ends with the tool
\* message of the round before it
C21_Witness ==
  \E t \in Turns :
    /\ pc[t] = "model_error" /\ rounds[t] = 1
    /\ Last(ClientMessages).role = "tool" /\ Last(ClientMessages).by = t
    /\ llm_request.messages = ClientMessages

\* the places <<a, i>> of the tool-role messages for request id in the lists
ToolMessagesFor(id) ==
  {p \in UNION {{<<a, i>> : i \in 1..Len(heap[a])} : a \in 1..Len(heap)} :
     /\ heap[p[1]][p[2]].role = "tool"
     /\ heap[p[1]][p[2]].tool_call_id = id}
\* the calls of session.call_tool turn t made for request id
InvocationsFor(t, id) == {j \in 1..Len(invoked[t]) : invoked[t][j].id = id}
\* the for loop of turn t is done with request j of the current round
Handled(t, j) ==
  /\ pc[t] \in (RoundPcs \ {"log_assistant"}) \cup {"call_llm"}
  /\ j <= Len(tool_calls[t])
  /\ idx[t] > j \/ (idx[t] = j /\ pc[t] = "call_llm")

\* C22: unparsable arguments.  A request whose argument string is no JSON is
\* invoked all the same, once and with empty arguments, it gets exactly one
\* tool-role message with its id, and the turn goes on with the next request
\* or the next model call.
C22_UnparsableArguments ==
  \A t \in Turns : \A j \in 1..Len(tool_calls[t]) :
    Handled(t, j) /\ JSONDecodeError(tool_calls[t][j].arguments) =>
      LET id == tool_calls[t][j].id IN
        /\ Cardinality(InvocationsFor(t, id)) = 1
        /\ \A k \in InvocationsFor(t, id) : invoked[t][k].tool_args = <<>>
        /\ Cardinality(ToolMessagesFor(id)) = 1

\* turn t is cancelled or aborted by an error in this step, inside the for
\* loop over the requests
AbortedInRound(t) ==
  pc[t] \in RoundPcs \ {"log_assistant"} /\ pc'[t] \in {"cancelled", "store_error"}

\* C23: no rollback.  When a turn is cancelled or aborted by an error while
\* it executes tool calls, no list loses a message and the durable record
\* still holds every message it held: the assistant message with the requests
\* and the tool messages saved so far stay persisted.
C23_NoRollback ==
  [][\A t \in Turns : AbortedInRound(t) =>
       /\ heap' = heap
       /\ ConversationPath \in DOMAIN disk'
       /\ IsPrefix(Persisted, disk'[ConversationPath].messages)]_vars

\* the tool-calling rounds one turn can make within a run: every round
\* appends an assistant message and at least one tool message after the
\* user message
RoundBudget == (MaxAppends - 1) \div 2

\* C24: bounded round trips.  A turn makes fewer tool-calling rounds than the
\* run has room for: some fixed maximum stops it before that, with a
\* TurnAborted error.
C24_RoundTripsCapped ==
  \A t \in Turns : rounds[t] < RoundBudget /\ pc[t] # "turn_aborted"

\* C25: deadlines.  A turn that waits for a model call or a tool call does
\* not wait forever: the call is given up as failed at some point, so every
\* turn that was started ends, done or with an error (or the run has used
\* up its appends, which is the end of what the model follows).
C25_NoIndefiniteHang ==
  \A t \in Turns : InFlight(t) ~> (~InFlight(t) \/ appended = MaxAppends)

\* ------------------------------------------------------------------ C26
HasSystemMessage(s) == \E i \in 1..Len(s) : s[i].role = "system"

\* C26: the system message is no part of a stored transcript: no list of the
\* process (self.messages, the lists of the conversation table) and no record
\* on disk holds a message of role "system"; the system message stands only
\* in the list a turn builds locally and returns.
C26_NoSystemMessageStored ==
  /\ \A a \in DOMAIN heap : ~HasSystemMessage(heap[a])
  /\ \A f \in DOMAIN disk : ~HasSystemMessage(disk[f].messages)

\* a turn that built its local list with the system message has ended DONE,
\* its transcript is in the table and was saved
C26_Witness ==
  \E t \in Turns :
    /\ pc[t] = "done"
    /\ HasSystemMessage(messages[t])
    /\ convo_id[t] \in DOMAIN conversations
    /\ Len(heap[conversations[convo_id[t]]]) >= 2
    /\ \E f \in DOMAIN disk : Len(disk[f].messages) >= 2

\* ------------------------------------------------------------------ C27
\* C27: a save of the conversation that follows a save of it, with nothing
\* done to the transcript in between, leaves on disk the record the first
\* save produced.
C27_IdempotentSave ==
  [][(reply.op = "save" /\ reply'.op = "save")
       => /\ disk' = disk
          /\ disk'[ConversationPath] = reply.record]_vars

\* a transcript with messages has been saved twice in a row
C27_Witness ==
  /\ reply.op = "save"
  /\ reply.again
  /\ Len(reply.record.messages) >= 2
  /\ disk[ConversationPath] = reply.record

\* ------------------------------------------------------------------ C28
\* C28: during a turn on conversation X and when it has ended, DONE or with
\* an error, the transcript X had as the turn began is a prefix of the
\* transcript X has: whatever step is taken while the turn is under way, the
\* list the table then holds for X starts with the messages from before.
C28_AppendOnly ==
  [][\A t \in Turns :
       (InFlight(t) /\ convo_id[t] \in DOMAIN conversations')
         => IsPrefix(before[t].transcript, heap'[conversations'[convo_id[t]]])]_vars

\* ------------------------------------------------------------------ C29
\* the requests of the current round of turn t that the for loop has started
Started(t) ==
  IF pc[t] \in {"in_tool", "log_tool_result", "log_tool_error"} THEN idx[t]
  ELSE IF pc[t] = "tool" THEN idx[t] - 1
  ELSE IF pc[t] = "call_llm" THEN Len(tool_calls[t])
  ELSE 0
\* the last n calls of session.call_tool of turn t
LastInvoked(t, n) == SubSeq(invoked[t], Len(invoked[t]) - n + 1, Len(invoked[t]))
\* all calls of session.call_tool so far, of every turn
AllInvoked == UNION {{<<t, j>> : j \in 1..Len(invoked[t])} : t \in Turns}

\* C29: the requests of an assistant message are invoked one at a time, in
\* the order given: the calls made in the current round are the first
\* requests of the message, in their order; when a call starts, every
\* request before it has its tool-role message; no request is invoked twice,
\* by its turn or any other; and the model is called again only when every
\* request was invoked and has its tool-role message.
C29_OneAtATimeInOrder ==
  /\ \A t \in Turns :
       pc[t] \in (RoundPcs \ {"log_assistant"}) \cup {"call_llm"} =>
         /\ Started(t) <= Len(invoked[t])
         /\ \A j \in 1..Started(t) :
              /\ LastInvoked(t, Started(t))[j].id = tool_calls[t][j].id
              /\ (j < Started(t) \/ pc[t] = "call_llm")
                   => ToolMessagesFor(tool_calls[t][j].id) # {}
  /\ \A p, q \in AllInvoked :
       invoked[p[1]][p[2]].id = invoked[q[1]][q[2]].id => p = q

\* a round with two requests is over and the model is about to be called: the
\* first request failed, the second was invoked after it
C29_Witness ==
  \E t \in Turns :
    /\ pc[t] = "call_llm"
    /\ Len(tool_calls[t]) = 2
    /\ Len(invoked[t]) = 2
    /\ \E p \in ToolMessagesFor(tool_calls[t][1].id) :
         heap[p[1]][p[2]] = ToolErrorMessage(t, tool_calls[t][1].id)
    /\ ToolMessagesFor(tool_calls[t][2].id) # {}

\* ------------------------------------------------------------------ C30
\* list s holds the two messages of upload u
HoldsUpload(s, u) ==
  \E i \in 1..(Len(s) - 1) : s[i] = UploadMessages(u)[1] /\ s[i + 1] = UploadMessages(u)[2]

\* C30: upload messages are not lost.  When a turn on conversation X ends and
\* an upload for X completed while the turn was waiting for a tool, the
\* transcript the table holds for X after the turn has the two messages of
\* the upload, whether X was in the table as the turn began or not.
C30_UploadNotLost ==
  [][\A t \in Turns : \A u \in Uploads :
       (TurnEnds(t) /\ upload[u].pc = "done" /\ t \in upload[u].during)
         => /\ convo_id[t] \in DOMAIN conversations'
            /\ HoldsUpload(heap'[conversations'[convo_id[t]]], u)]_vars

\* ------------------------------------------------------------------ C31
\* C31: a deleted conversation stays deleted.  A turn on X that began while
\* X was in the table and ends when X is not (X was deleted in between, and
\* no later request has made it anew) does not put X back with the messages
\* X had as the turn began.
C31_DeletedStaysDeleted ==
  [][\A t \in Turns :
       (TurnEnds(t) /\ before[t].transcript # <<>>
          /\ convo_id[t] \notin DOMAIN conversations)
         => ~(/\ convo_id[t] \in DOMAIN conversations'
              /\ IsPrefix(before[t].transcript,
                          heap'[conversations'[convo_id[t]]]))]_vars

\* ------------------------------------------------------------------ C32
\* C32: a load_conversation that fails with not-found leaves the client as
\* it was: its conversation_id, its messages and its created_at are those
\* from before the call, so the path of the next save is the same too.
C32_FailedLoadLeavesClient ==
  [][(reply'.op = "load" /\ reply'.raised = "FileNotFoundError")
       => /\ client' = client
          /\ heap'[client'.messages] = heap[client.messages]
          /\ ConversationPath' = ConversationPath]_vars

\* ------------------------------------------------------------------ C33
\* the request this step belongs to is a turn or an upload on id X
ActsOn(X) ==
  \/ \E t \in Turns : (InFlight(t) \/ InFlight(t)') /\ convo_id'[t] = X
  \/ \E u \in Uploads :
       (upload[u].pc = "in_tool" \/ upload'[u].pc = "in_tool") /\ upload'[u].convo_id = X

\* C33: with requests handled one after another, a step of a turn or of an
\* upload on id X leaves every other id in the table with the transcript it
\* had, and no two ids of the table hold the same list.
C33_SequentialIsolation ==
  [][/\ \A Y \in DOMAIN conversations :
          ~ActsOn(Y) => /\ Y \in DOMAIN conversations'
                        /\ heap'[conversations'[Y]] = heap[conversations[Y]]
     /\ \A X, Y \in DOMAIN conversations' :
          X # Y => conversations'[X] # conversations'[Y]]_vars

\* two ids are in the table with their transcripts, after a turn that was
\* stored, an upload and a turn that failed
C33_Witness ==
  /\ OneAtATime
  /\ DOMAIN conversations = {1, 2}
  /\ heap[conversations[1]] # <<>> /\ heap[conversations[2]] # <<>>
  /\ \E t \in Turns : pc[t] = "done"
  /\ \E t \in Turns : pc[t] = "model_error"
  /\ \E u \in Uploads : upload[u].pc = "done"

\* ------------------------------------------------------------------ C34
\* the /file handler of upload u ends in this step because its tool call failed
UploadToolFailure(u) ==
  /\ upload[u].pc = "in_tool" /\ upload'[u].pc # "in_tool"
  /\ reply'.op = "file" /\ reply'.detail = "Failed to call tool"

\* C34: when the tool call of an upload fails, /file answers with an error
\* and the table is as it was: the same ids, each with the list and the
\* messages it had, and no id made for the upload.
C34_FailedUploadStoresNothing ==
  [][\A u \in Uploads :
       UploadToolFailure(u) =>
         /\ reply'.status = 500 /\ reply'.id = upload[u].convo_id
         /\ upload'[u].pc = "error"
         /\ conversations' = conversations
         /\ \A X \in DOMAIN conversations :
              heap'[conversations'[X]] = heap[conversations[X]]]_vars

\* an upload for an id that is not in the table has just failed by its tool,
\* and the id is still not in the table
C34_Witness ==
  \E u \in Uploads :
    /\ upload[u].pc = "error"
    /\ reply = [op |-> "file", id |-> upload[u].convo_id, status |-> 500,
                 detail |-> "Failed to call tool"]
    /\ upload[u].convo_id \notin DOMAIN conversations
    /\ \E t \in Turns : pc[t] = "in_tool" /\ convo_id[t] = upload[u].convo_id

====
